---- MODULE Spec2Model ----
(***************************************************************************)
(* The Tarot Reader API (backend/src/main.rs): an in-memory store of       *)
(* readings behind one std::sync::RwLock, served by Rocket worker threads.  *)
(*                                                                         *)
(* Conventions of the model                                                 *)
(*  - A Uuid is an opaque token that the program only compares for         *)
(*    equality and hashes.  Uuid::new_v4() draws 122 random bits; the model *)
(*    names the tokens 1, 2, 3, ... in the order in which they are drawn,   *)
(*    i.e. it takes the generator to return a token it has not returned     *)
(*    before (the contract of a version-4 UUID).                            *)
(*  - Utc::now() reads the variable clock, which never decreases.  Two      *)
(*    readings can return the same value, except that the clock has moved   *)
(*    on between the seeder's last reading and the first request: the       *)
(*    listener is bound, and a request read, only after launch.             *)
(*  - The iteration order of the HashMap is unspecified.  Its only consumer *)
(*    is get_readings, which sorts stably by created_at, so two orders that *)
(*    agree on the records of equal created_at give the same listings; the  *)
(*    model keeps one order of each such class, the one with the oldest     *)
(*    record first.  An insert may rehash, so it may change the order of    *)
(*    the keys arbitrarily.                                                 *)
(*  - std::sync::RwLock promises no priority policy: a lock request is      *)
(*    granted whenever the lock state allows it, to any of the requesters.  *)
(***************************************************************************)
EXTENDS Integers, Sequences, FiniteSets, TLC

\* ------------------------------------------------------------------ bounds
NumWorkers == 2     \* Rocket worker threads serving requests in Spec
NumFairWorkers == 3 \* Rocket worker threads serving requests in FairSpec
MaxCreates == 2     \* accepted POST /api/readings requests in one run
MaxTicks == 1       \* clock ticks after launch
SeedSkew == 1       \* clock advance between the three Utc::now() of the seeder
MaxEnvLen == 3      \* length of the ALLOWED_ORIGINS value

\* ------------------------------------------------------- program constants
NumSeeds == 3       \* the three tuples of `samples`
Day == 2            \* chrono::Duration::days(1), in clock units

MaxUuid == NumSeeds + MaxCreates + 1
Uuids == 1..MaxUuid
LaunchBase == 2 * Day
MaxClock == LaunchBase + SeedSkew + 1 + MaxTicks

VARIABLES
    store,          \* the HashMap<Uuid, TarotReading> inside the RwLock
    bucket_order,   \* the order in which the HashMap iterates its keys
    lock,           \* the RwLock: the guards alive, [readers, writers]
    clock,          \* what Utc::now() returns
    next_uuid,      \* number of Uuid::new_v4() calls so far, plus one
    pc,             \* per worker: the line its handler is at
    request,        \* per worker: the request it is serving
    reading,        \* per worker: create_reading's local `reading`
    uuid,           \* per worker: get_reading's local `uuid`
    response,       \* per worker: the response it is about to send
    created_log,    \* history: (request body, returned record) of every 201 sent
    prior_listing,  \* history, per worker: a listing completed before its own began
    cors_env,       \* launch inputs: [debug, allowed_origins]
    cors            \* the CorsOptions configure_cors returned

\* The worker threads of the run.
Workers == DOMAIN pc

vars == <<store, bucket_order, lock, clock, next_uuid, pc, request, reading, uuid,
          response, created_log, prior_listing, cors_env, cors>>

None == [kind |-> "none"]
Some(x) == [kind |-> "some", val |-> x]

\* ------------------------------------------------------------- data model
TarotReading(id, question, cards, interpretation, created_at) ==
    [id |-> id, question |-> question, cards |-> cards,
     interpretation |-> interpretation, created_at |-> created_at]

\* ----------------------------------------------------------------- Uuid
\* A textual identifier: one of the forms Uuid::parse_str accepts, or text it rejects.
UuidForms == {"hyphenated", "simple"}
UuidString(form, u) == [form |-> form, uuid |-> u]
NotAUuid == [form |-> "not-a-uuid", uuid |-> 0]

\* impl Display for Uuid: the hyphenated lower-case form.
UuidDisplay(u) == UuidString("hyphenated", u)

ParseStrOrDefault(s) == Some(IF s.form \in UuidForms /\ s.uuid \in Uuids THEN s.uuid ELSE 1)

\* Uuid::parse_str(&id).ok()
ParseStr(s) == IF s.form \in UuidForms /\ s.uuid \in Uuids THEN Some(s.uuid) ELSE None

NewV4Repeating(n) == IF n > NumSeeds + 1 THEN n - 1 ELSE n

\* Uuid::new_v4(): the next token not drawn before.
NewV4(n) == n

\* ----------------------------------------------------------------- HashMap
HashMapInsertAlone(map, k, v) == [x \in {k} |-> v]

HashMapInsert(map, k, v) == [x \in (DOMAIN map) \cup {k} |-> IF x = k THEN v ELSE map[x]]

HashMapGet(map, k) == IF k \in DOMAIN map THEN Some(map[k]) ELSE None

RECURSIVE OrdersOf(_)
OrdersOf(S) ==
    IF S = {} THEN {<<>>}
    ELSE UNION {{<<x>> \o o : o \in OrdersOf(S \ {x})} : x \in S}

\* The place of s[j] after a stable sort of s by created_at, latest first: behind the
\* records created later and behind the earlier ones, in s, of equal created_at.
PlaceDesc(s, j) ==
    1 + Cardinality({k \in 1..Len(s) : s[k].created_at > s[j].created_at})
      + Cardinality({k \in 1..(j - 1) : s[k].created_at = s[j].created_at})

PlaceAsc(s, j) ==
    1 + Cardinality({k \in 1..Len(s) : s[k].created_at < s[j].created_at})
      + Cardinality({k \in 1..(j - 1) : s[k].created_at = s[j].created_at})

SortByCreatedAtAsc(s) ==
    [i \in 1..Len(s) |-> s[CHOOSE j \in 1..Len(s) : PlaceAsc(s, j) = i]]

\* readings_list.sort_by(|a, b| b.created_at.cmp(&a.created_at)): a stable sort.
SortByCreatedAtDesc(s) ==
    [i \in 1..Len(s) |-> s[CHOOSE j \in 1..Len(s) : PlaceDesc(s, j) = i]]

\* readings.values().cloned().collect()
Values(map, order) == [i \in 1..Len(order) |-> map[order[i]]]

\* The iteration orders a HashMap holding `map` can have, one of each class (see the
\* conventions above): oldest first, the records of equal created_at in any order.
IterationOrders(map) ==
    {o \in OrdersOf(DOMAIN map) :
        \A i \in 1..(Len(o) - 1) : map[o[i]].created_at <= map[o[i + 1]].created_at}

\* ----------------------------------------------------------------- RwLock
RwLockFree == [readers |-> {}, writers |-> {}]

CanReadAlways(l) == TRUE

CanRead(l) == l.writers = {}
CanWrite(l) == l.writers = {} /\ l.readers = {}

ReadLock(l, w) == [l EXCEPT !.readers = @ \cup {w}]
WriteLock(l, w) == [l EXCEPT !.writers = @ \cup {w}]
DropReadGuard(l, w) == [l EXCEPT !.readers = @ \ {w}]
LeakWriteGuard(l, w) == l

DropWriteGuard(l, w) == [l EXCEPT !.writers = @ \ {w}]

\* ------------------------------------------------- request bodies (JSON)
\* A JSON value: its type, its text (strings and numbers) and its elements (arrays).
JStr(s) == [t |-> "string", s |-> s, a |-> <<>>]
JNum(n) == [t |-> "number", s |-> n, a |-> <<>>]
JArr(a) == [t |-> "array", s |-> "", a |-> a]

RainBody ==
    [question |-> JStr("Will it rain?"), cards |-> JArr(<<JStr("The Star")>>),
     interpretation |-> JStr("Hope.")]
MissingFieldBody ==
    [question |-> JStr("Will it rain?"), cards |-> JArr(<<JStr("The Star")>>)]
WrongTypeBody ==
    [question |-> JNum("7"), cards |-> JArr(<<JStr("The Star")>>),
     interpretation |-> JStr("Hope.")]
CardNotStringBody ==
    [question |-> JStr("Will it rain?"), cards |-> JArr(<<JStr("The Star"), JNum("1")>>),
     interpretation |-> JStr("Hope.")]

Bodies == {RainBody, MissingFieldBody, WrongTypeBody, CardNotStringBody}

\* The identifiers a client asks for: a sample's, the first created record's (in two
\* forms), one that is never drawn, and text that is no UUID.
IdStrings ==
    {UuidDisplay(1), UuidDisplay(NumSeeds + 1), UuidString("simple", NumSeeds + 1),
     UuidDisplay(MaxUuid), NotAUuid}

Field(body, name) == IF name \in DOMAIN body THEN body[name] ELSE JStr("")

FromJsonDefaulting(body) ==
    Some([question |-> Field(body, "question").s,
          cards |-> [i \in 1..Len(Field(body, "cards").a) |-> Field(body, "cards").a[i].s],
          interpretation |-> Field(body, "interpretation").s])

\* #[derive(Deserialize)] struct CreateReadingRequest, behind the Json<_> data guard:
\* all three fields present, each of its declared type.
FromJson(body) ==
    IF /\ {"question", "cards", "interpretation"} \subseteq DOMAIN body
       /\ body.question.t = "string"
       /\ body.cards.t = "array"
       /\ \A i \in 1..Len(body.cards.a) : body.cards.a[i].t = "string"
       /\ body.interpretation.t = "string"
    THEN Some([question |-> body.question.s,
               cards |-> [i \in 1..Len(body.cards.a) |-> body.cards.a[i].s],
               interpretation |-> body.interpretation.s])
    ELSE None

\* ---------------------------------------------------------------- responses
NoResponse == [status |-> "none"]
Ok(body) == [status |-> "200 OK", body |-> body]
Created(location, body) == [status |-> "201 Created", location |-> location, body |-> body]
NotFound == [status |-> "404 Not Found"]
UnprocessableEntity == [status |-> "422 Unprocessable Entity"]

\* format!("/api/readings/{}", id)
Location(id) == [path |-> "/api/readings/", id |-> UuidDisplay(id)]

NoRequest == [route |-> "none"]
NoReading == [id |-> 0]
NoUuid == 0

\* ------------------------------------------------------ initialize_sample_data
\* now1, now2, now3: what the three Utc::now() calls of `samples` return.
InitializeSampleData(now1, now2, now3) ==
    LET career == TarotReading(NewV4(1),
            "What does the future hold for my career?",
            <<"The Fool", "The Magician", "The High Priestess">>,
            "The Fool suggests new beginnings and taking a leap of faith in your career. The Magician indicates you have all the tools and skills necessary for success. The High Priestess advises trusting your intuition when making important career decisions.",
            now1 - 2 * Day)
        relationship == TarotReading(NewV4(2),
            "Should I pursue this new relationship?",
            <<"The Lovers", "Two of Cups", "The Sun">>,
            "The Lovers card strongly indicates a meaningful connection. The Two of Cups reinforces partnership and mutual attraction. The Sun brings joy and positivity, suggesting this relationship has great potential for happiness.",
            now2 - Day)
        financial == TarotReading(NewV4(3),
            "How can I improve my financial situation?",
            <<"Nine of Pentacles", "The Emperor", "Three of Wands">>,
            "The Nine of Pentacles suggests financial independence is within reach through self-discipline. The Emperor advises taking control and creating structure in your financial planning. The Three of Wands indicates your long-term investments and planning will pay off.",
            now3)
    IN HashMapInsert(HashMapInsert(HashMapInsert(<<>>, career.id, career),
                                   relationship.id, relationship),
                     financial.id, financial)

\* ------------------------------------------------------------ configure_cors
Origin(scheme, host, port) == [scheme |-> scheme, host |-> host, port |-> port]

\* The allowed_origins field of CorsOptions.
AllowedOriginsAll == [kind |-> "all"]
SomeExact(origins) == [kind |-> "some_exact", origins |-> origins]

\* The text of ALLOWED_ORIGINS is a sequence of characters; "," is the separator and
\* "a", "b" stand for the other characters.
EnvChars == {"a", "b", ","}

RECURSIVE SeqsUpTo(_, _)
SeqsUpTo(S, n) ==
    IF n = 0 THEN {<<>>}
    ELSE LET shorter == SeqsUpTo(S, n - 1)
         IN shorter \cup {Append(t, c) : t \in shorter, c \in S}

\* env::var("ALLOWED_ORIGINS"): Err(_) is None, Ok(text) is Some(text).
EnvValues == {None} \cup {Some(t) : t \in SeqsUpTo(EnvChars, MaxEnvLen)}
CorsEnvs == [debug : BOOLEAN, allowed_origins : EnvValues]

\* origins.split(','): the pieces between the separators, in order; the text without
\* a separator is one piece, also when it is empty.
RECURSIVE Split(_, _)
Split(text, sep) ==
    IF \A i \in 1..Len(text) : text[i] # sep THEN <<text>>
    ELSE LET i == CHOOSE j \in 1..Len(text) :
                      text[j] = sep /\ \A k \in 1..(j - 1) : text[k] # sep
         IN <<SubSeq(text, 1, i - 1)>> \o Split(SubSeq(text, i + 1, Len(text)), sep)

Range(s) == {s[i] : i \in 1..Len(s)}

DevOrigins ==
    {Origin("http", "localhost", 3000), Origin("http", "127.0.0.1", 3000),
     Origin("http", "localhost", 5173), Origin("http", "127.0.0.1", 5173)}

ConfigureCorsFromEnv(env) ==
    [allowed_origins |->
        IF env.allowed_origins.kind = "some"
        THEN SomeExact(Range(Split(env.allowed_origins.val, ",")))
        ELSE SomeExact(DevOrigins),
     allowed_methods |-> {"GET", "POST", "PUT", "DELETE", "OPTIONS"},
     allowed_headers |-> "all",
     allow_credentials |-> TRUE]

\* configure_cors(), with cfg!(debug_assertions) and the environment as parameters.
ConfigureCors(env) ==
    [allowed_origins |->
        IF env.debug THEN SomeExact(DevOrigins)
        ELSE IF env.allowed_origins.kind = "some"
             THEN SomeExact(Range(Split(env.allowed_origins.val, ",")))
             ELSE AllowedOriginsAll,
     allowed_methods |-> {"GET", "POST", "PUT", "DELETE", "OPTIONS"},
     allowed_headers |-> "all",
     allow_credentials |-> TRUE]

\* -------------------------------------------------------------------- launch
\* rocket() has run and the listener is bound: the store holds the samples, no
\* request is being served, the clock is past the seeder's readings.
InitStore(workers) ==
    /\ pc = [w \in 1..workers |-> "idle"]
    /\ \E now1, now2, now3 \in LaunchBase..(LaunchBase + SeedSkew) :
          /\ now1 <= now2 /\ now2 <= now3
          /\ store = InitializeSampleData(now1, now2, now3)
          /\ clock = now3 + 1
    /\ bucket_order \in IterationOrders(store)
    /\ lock = RwLockFree
    /\ next_uuid = NumSeeds + 1
    /\ request = [w \in Workers |-> NoRequest]
    /\ reading = [w \in Workers |-> NoReading]
    /\ uuid = [w \in Workers |-> NoUuid]
    /\ response = [w \in Workers |-> NoResponse]
    /\ created_log = {}
    /\ prior_listing = [w \in Workers |-> <<>>]

\* The handlers never read the CORS options: the request-serving specification is
\* that of a development build started without ALLOWED_ORIGINS.
InitWith(workers) ==
    /\ InitStore(workers)
    /\ cors_env = [debug |-> TRUE, allowed_origins |-> None]
    /\ cors = Some(ConfigureCors(cors_env))

Init == InitWith(NumWorkers)

\* ------------------------------------------------------------------ handlers
\* History: the listings whose handler has returned and whose response is still with
\* its worker, and the empty sequence for "none".
CompletedListings ==
    {<<>>} \cup {response[v].body : v \in {x \in Workers :
                     pc[x] = "done" /\ request[x].route = "get_readings"}}

\* GET /api/readings is routed to get_readings.
GetReadings(w) ==
    /\ pc[w] = "idle"
    /\ pc' = [pc EXCEPT ![w] = "l64"]
    /\ request' = [request EXCEPT ![w] = [route |-> "get_readings"]]
    /\ \E prior \in CompletedListings :
          prior_listing' = [prior_listing EXCEPT ![w] = prior]
    /\ UNCHANGED <<store, bucket_order, lock, clock, next_uuid, reading, uuid, response,
                   created_log, cors_env, cors>>

\* line 64: store.read().unwrap()
GetReadingsLock(w) ==
    /\ pc[w] = "l64"
    /\ CanRead(lock)
    /\ lock' = ReadLock(lock, w)
    /\ pc' = [pc EXCEPT ![w] = "l65"]
    /\ UNCHANGED <<store, bucket_order, clock, next_uuid, request, reading, uuid,
                   response, created_log, prior_listing, cors_env, cors>>

\* The body of get_readings under the read guard (lines 65-67).
ReadingsList(map, order) == SortByCreatedAtDesc(Values(map, order))

\* lines 65-68: collect, sort, return; the guard is dropped at the return.
GetReadingsBody(w) ==
    /\ pc[w] = "l65"
    /\ response' = [response EXCEPT ![w] = Ok(ReadingsList(store, bucket_order))]
    /\ lock' = DropReadGuard(lock, w)
    /\ pc' = [pc EXCEPT ![w] = "done"]
    /\ UNCHANGED <<store, bucket_order, clock, next_uuid, request, reading, uuid,
                   created_log, prior_listing, cors_env, cors>>

\* GET /api/readings/<id> is routed to get_reading; line 72 returns None at once when
\* the text is no UUID.
GetReading(w, id) ==
    /\ pc[w] = "idle"
    /\ request' = [request EXCEPT ![w] = [route |-> "get_reading", id |-> id]]
    /\ LET parsed == ParseStr(id)
       IN IF parsed.kind = "none"
          THEN /\ response' = [response EXCEPT ![w] = NotFound]
               /\ pc' = [pc EXCEPT ![w] = "done"]
               /\ uuid' = uuid
          ELSE /\ uuid' = [uuid EXCEPT ![w] = parsed.val]
               /\ pc' = [pc EXCEPT ![w] = "g73"]
               /\ response' = response
    /\ UNCHANGED <<store, bucket_order, lock, clock, next_uuid, reading, created_log,
                   prior_listing, cors_env, cors>>

\* line 73: store.read().unwrap()
GetReadingLock(w) ==
    /\ pc[w] = "g73"
    /\ CanRead(lock)
    /\ lock' = ReadLock(lock, w)
    /\ pc' = [pc EXCEPT ![w] = "g74"]
    /\ UNCHANGED <<store, bucket_order, clock, next_uuid, request, reading, uuid,
                   response, created_log, prior_listing, cors_env, cors>>

\* Option<Json<TarotReading>> as a response: Some is 200 with the record, None is 404
\* with no body.
OptionResponse(found) == IF found.kind = "some" THEN Ok(found.val) ELSE NotFound

\* line 74: readings.get(&uuid).cloned().map(Json); the guard is dropped at the return.
GetReadingBody(w) ==
    /\ pc[w] = "g74"
    /\ response' = [response EXCEPT ![w] = OptionResponse(HashMapGet(store, uuid[w]))]
    /\ lock' = DropReadGuard(lock, w)
    /\ pc' = [pc EXCEPT ![w] = "done"]
    /\ UNCHANGED <<store, bucket_order, clock, next_uuid, request, reading, uuid,
                   created_log, prior_listing, cors_env, cors>>

NewReadingSwapped(id, req, now) ==
    TarotReading(id, req.interpretation, req.cards, req.question, now)

\* lines 85-91: the record built from the request, the identifier and the timestamp.
NewReading(id, req, now) ==
    TarotReading(id, req.question, req.cards, req.interpretation, now)

\* POST /api/readings: the Json<CreateReadingRequest> guard parses the body; when it
\* fails the handler is not called and the answer is 422.  Otherwise create_reading
\* runs lines 82-91: it draws the identifier, reads the clock and builds the record.
PostReadings(w, body) ==
    /\ pc[w] = "idle"
    /\ request' = [request EXCEPT ![w] = [route |-> "create_reading", body |-> body]]
    /\ LET parsed == FromJson(body)
       IN IF parsed.kind = "none"
          THEN /\ response' = [response EXCEPT ![w] = UnprocessableEntity]
               /\ pc' = [pc EXCEPT ![w] = "done"]
               /\ UNCHANGED <<reading, next_uuid>>
          ELSE /\ next_uuid <= NumSeeds + MaxCreates
               /\ reading' = [reading EXCEPT ![w] =
                                 NewReading(NewV4(next_uuid), parsed.val, clock)]
               /\ next_uuid' = next_uuid + 1
               /\ pc' = [pc EXCEPT ![w] = "c93"]
               /\ response' = response
    /\ UNCHANGED <<store, bucket_order, lock, clock, uuid, created_log, prior_listing,
                   cors_env, cors>>

\* line 93: store.write().unwrap()
CreateReadingLock(w) ==
    /\ pc[w] = "c93"
    /\ CanWrite(lock)
    /\ lock' = WriteLock(lock, w)
    /\ pc' = [pc EXCEPT ![w] = "c94"]
    /\ UNCHANGED <<store, bucket_order, clock, next_uuid, request, reading, uuid,
                   response, created_log, prior_listing, cors_env, cors>>

\* lines 94-98: insert, build the 201 response, return; the guard is dropped at the
\* return.
CreateReadingInsert(w) ==
    /\ pc[w] = "c94"
    /\ store' = HashMapInsert(store, reading[w].id, reading[w])
    /\ bucket_order' \in IterationOrders(store')
    /\ response' = [response EXCEPT ![w] = Created(Location(reading[w].id), reading[w])]
    /\ created_log' = created_log \cup
          {[request |-> FromJson(request[w].body).val, reading |-> reading[w]]}
    /\ lock' = DropWriteGuard(lock, w)
    /\ pc' = [pc EXCEPT ![w] = "done"]
    /\ UNCHANGED <<clock, next_uuid, request, reading, uuid, prior_listing, cors_env,
                   cors>>

\* Rocket sends the response and the worker takes the next request.
Respond(w) ==
    /\ pc[w] = "done"
    /\ pc' = [pc EXCEPT ![w] = "idle"]
    /\ request' = [request EXCEPT ![w] = NoRequest]
    /\ reading' = [reading EXCEPT ![w] = NoReading]
    /\ uuid' = [uuid EXCEPT ![w] = NoUuid]
    /\ response' = [response EXCEPT ![w] = NoResponse]
    /\ prior_listing' = [prior_listing EXCEPT ![w] = <<>>]
    /\ UNCHANGED <<store, bucket_order, lock, clock, next_uuid, created_log,
                   cors_env, cors>>

\* Time passes.
Tick ==
    /\ clock < MaxClock
    /\ clock' = clock + 1
    /\ UNCHANGED <<store, bucket_order, lock, next_uuid, pc, request, reading, uuid,
                   response, created_log, prior_listing, cors_env, cors>>

\* What a worker does once it has a request: everything but taking one.
Handler(w) ==
    \/ GetReadingsLock(w)
    \/ GetReadingsBody(w)
    \/ GetReadingLock(w)
    \/ GetReadingBody(w)
    \/ CreateReadingLock(w)
    \/ CreateReadingInsert(w)
    \/ Respond(w)

Next ==
    \/ \E w \in Workers : GetReadings(w)
    \/ \E w \in Workers, id \in IdStrings : GetReading(w, id)
    \/ \E w \in Workers, body \in Bodies : PostReadings(w, body)
    \/ \E w \in Workers : Handler(w)
    \/ Tick

Spec == Init /\ [][Next]_vars

\* The progress of the handlers does not depend on the data of the requests, so the
\* specification that states fairness serves fewer kinds of request: listings, gets
\* of one sample and well-formed creates, from a launch whose seeder read one clock
\* value, with the clock standing still.
FairWorkers == 1..NumFairWorkers

InitFair ==
    /\ InitWith(NumFairWorkers)
    /\ clock = LaunchBase + 1

NextFair ==
    \/ \E w \in Workers : GetReadings(w) /\ prior_listing' = prior_listing
    \/ \E w \in Workers : GetReading(w, UuidDisplay(1))
    \/ \E w \in Workers : PostReadings(w, RainBody)
    \/ \E w \in Workers : Handler(w)

\* Fair scheduling of the worker threads, in its strong form: a worker whose next
\* step is possible again and again takes it.  Nothing obliges a client to send a
\* request.
FairSpec ==
    InitFair /\ [][NextFair]_vars /\ \A w \in FairWorkers : SF_vars(Handler(w))

\* The runs of Spec in which no two Utc::now() calls of create_reading return the
\* same value (the clock has ticked since it was last read) and none returns the
\* value of a sample.
ClockMovedOn ==
    /\ \A k \in DOMAIN store : store[k].created_at # clock
    /\ \A w \in Workers : pc[w] \in {"c93", "c94"} => reading[w].created_at # clock

NextDistinctClock ==
    \/ \E w \in Workers : GetReadings(w)
    \/ \E w \in Workers, id \in IdStrings : GetReading(w, id)
    \/ \E w \in Workers, body \in Bodies : ClockMovedOn /\ PostReadings(w, body)
    \/ \E w \in Workers : Handler(w)
    \/ Tick

SpecDistinctClock == Init /\ [][NextDistinctClock]_vars

\* ----------------------------------------------- configure_cors on its own
InitCors ==
    /\ InitStore(NumWorkers)
    /\ cors_env \in CorsEnvs
    /\ cors = None

\* rocket() line 191: let cors = configure_cors()
ConfigureCorsCall ==
    /\ cors = None
    /\ cors' = Some(ConfigureCors(cors_env))
    /\ UNCHANGED <<store, bucket_order, lock, clock, next_uuid, pc, request, reading,
                   uuid, response, created_log, prior_listing, cors_env>>

NextCors == ConfigureCorsCall

SpecCors == InitCors /\ [][NextCors]_vars

\* ==================================================================== claims
Holding(w) == w \in lock.readers \cup lock.writers
ListDone(w) == pc[w] = "done" /\ request[w].route = "get_readings"
GetDone(w) == pc[w] = "done" /\ request[w].route = "get_reading"
CreateDone(w) == pc[w] = "done" /\ request[w].route = "create_reading"
                    /\ response[w].status = "201 Created"

StrictlyDescending(s) == \A i \in 1..(Len(s) - 1) : s[i].created_at > s[i + 1].created_at
Descending(s) == \A i \in 1..(Len(s) - 1) : s[i].created_at >= s[i + 1].created_at
IsSuffix(s, t) == Len(s) <= Len(t) /\ s = SubSeq(t, Len(t) - Len(s) + 1, Len(t))

\* C1 as stated: after N completed creates, the listing a get_readings holding the
\* read guard returns has N + 3 records in strictly descending created_at order, and
\* so has every listing already returned.
C1_StrictlyDescending ==
    /\ \A w \in Workers : pc[w] = "l65" =>
          LET listing == ReadingsList(store, bucket_order)
          IN /\ Len(listing) = Cardinality(created_log) + NumSeeds
             /\ StrictlyDescending(listing)
    /\ \A w \in Workers : ListDone(w) => StrictlyDescending(response[w].body)

\* C1 as amended: after N completed creates, the listing has exactly N + 3 records
\* and is ordered by created_at descending, adjacent records being allowed to have
\* equal created_at (two records whose timestamps were read from the same clock
\* value).
C1_Descending ==
    /\ \A w \in Workers : pc[w] = "l65" =>
          LET listing == ReadingsList(store, bucket_order)
          IN /\ Len(listing) = Cardinality(created_log) + NumSeeds
             /\ Descending(listing)
    /\ \A w \in Workers : ListDone(w) =>
          /\ Descending(response[w].body)
          /\ Len(response[w].body) <= Cardinality(created_log) + NumSeeds

\* C1 witness: a listing of all records was returned after two creates that read the
\* same clock value.
C1_Witness ==
    \E w \in Workers :
        /\ ListDone(w)
        /\ Len(response[w].body) = NumSeeds + 2
        /\ response[w].body[1].created_at = response[w].body[2].created_at
        /\ Cardinality(created_log) = 2

\* C2: every record is stored under its own identifier; the identifier of a record
\* about to be inserted is the key of no stored record and of no other record about
\* to be inserted; no two returned records share an identifier; every completed
\* create has added a record (none has overwritten one).
C2_UniqueIdentifiers ==
    /\ \A k \in DOMAIN store : store[k].id = k
    /\ \A w \in Workers : pc[w] \in {"c93", "c94"} =>
          /\ reading[w].id \notin DOMAIN store
          /\ \A v \in Workers \ {w} :
                pc[v] \in {"c93", "c94"} => reading[v].id # reading[w].id
    /\ \A e1, e2 \in created_log : e1.reading.id = e2.reading.id => e1 = e2
    /\ \A w \in Workers : CreateDone(w) =>
          \A e \in created_log :
              e.reading.id = response[w].body.id => e.reading = response[w].body
    /\ Cardinality(DOMAIN store) = NumSeeds + Cardinality(created_log)

\* C2 witness: a create has just returned its record while another one, with its
\* identifier drawn, waits to insert.
C2_Witness ==
    \E w, v \in Workers :
        /\ CreateDone(w)
        /\ pc[v] = "c93"
        /\ response[w].body.id \in DOMAIN store
        /\ Cardinality(DOMAIN store) = NumSeeds + 1

\* C3: for every record R a create has returned, GET /api/readings/{R.id} (the
\* identifier as the response printed it) returns R, whose question, cards and
\* interpretation are those of the request; every get_reading that looks R.id up
\* will return R, and every one that found a record under R.id returned R.
C3_GetReturnsCreated ==
    \A e \in created_log :
        /\ e.reading.question = e.request.question
        /\ e.reading.cards = e.request.cards
        /\ e.reading.interpretation = e.request.interpretation
        /\ LET parsed == ParseStr(UuidDisplay(e.reading.id))
           IN /\ parsed.kind = "some"
              /\ OptionResponse(HashMapGet(store, parsed.val)).status = "200 OK"
              /\ OptionResponse(HashMapGet(store, parsed.val)).body = e.reading
        /\ \A w \in Workers :
              /\ GetDone(w)
              /\ uuid[w] = e.reading.id
              /\ response[w].status = "200 OK"
              => response[w].body = e.reading

\* C3 witness: a get_reading returned the first created record after a second create
\* had completed.
C3_Witness ==
    \E w \in Workers :
        /\ GetDone(w)
        /\ response[w].status = "200 OK"
        /\ response[w].body.id = NumSeeds + 1
        /\ response[w].body.question = "Will it rain?"
        /\ Cardinality(created_log) = 2

\* C4: a get_reading whose text is no UUID, and one whose UUID is the key of no
\* stored record, both answer 404 without a body, whatever else the response could
\* be; no step that completes a get_reading changes the store.
C4_NotFoundUniform ==
    /\ [](\A w \in Workers : GetDone(w) =>
            /\ request[w].id.form \notin UuidForms => response[w] = NotFound
            /\ (request[w].id.form \in UuidForms /\ request[w].id.uuid \notin DOMAIN store)
                  => response[w] = NotFound
            /\ response[w].status \in {"200 OK", "404 Not Found"}
            /\ response[w].status = "200 OK" => response[w].body.id = request[w].id.uuid)
    /\ [][\A w \in Workers :
            (request'[w].route = "get_reading" /\ pc[w] # "done" /\ pc'[w] = "done")
                => UNCHANGED <<store, bucket_order>>]_vars

\* C4 witness: two get_reading calls are answered 404, one for text that is no UUID
\* and one for a well-formed UUID that is no key of the store.
C4_Witness ==
    \E w, v \in Workers :
        /\ GetDone(w) /\ GetDone(v)
        /\ request[w].id = NotAUuid
        /\ request[v].id.form \in UuidForms
        /\ response[w] = NotFound
        /\ response[v] = response[w]

\* C5: every step keeps every stored record, under its key and with its fields; the
\* store changes only in the step in which a create_reading returns 201, and then by
\* one new key.
C5_RecordsImmutable ==
    [][/\ \A k \in DOMAIN store : k \in DOMAIN store' /\ store'[k] = store[k]
       /\ store' # store =>
             \E w \in Workers :
                 /\ pc[w] = "c94" /\ pc'[w] = "done"
                 /\ response'[w].status = "201 Created"
                 /\ reading[w].id \notin DOMAIN store
                 /\ DOMAIN store' = DOMAIN store \cup {reading[w].id}]_vars

\* C5 witness: the store holds the three samples and two created records.
C5_Witness ==
    /\ Cardinality(DOMAIN store) = NumSeeds + 2
    /\ \A k \in 1..NumSeeds : k \in DOMAIN store
    /\ \E w \in Workers : CreateDone(w)

\* The shape CreateReadingRequest requires of a body.
HasRequiredShape(body) ==
    /\ DOMAIN body = {"question", "cards", "interpretation"}
    /\ body.question.t = "string"
    /\ body.interpretation.t = "string"
    /\ body.cards.t = "array"
    /\ \A i \in 1..Len(body.cards.a) : body.cards.a[i].t = "string"

\* C6: a POST whose body lacks a field or has one of the wrong type is answered with
\* a client error in the step that takes it: create_reading is not entered, no
\* identifier is drawn, no lock is taken and the store is unchanged; a worker inside
\* create_reading always has a body of the required shape.
C6_MalformedRejected ==
    /\ [](\A w \in Workers :
            pc[w] \in {"c93", "c94"} => HasRequiredShape(request[w].body))
    /\ [][\A w \in Workers :
            (/\ pc[w] = "idle"
             /\ request'[w].route = "create_reading"
             /\ ~HasRequiredShape(request'[w].body))
            => /\ pc'[w] = "done"
               /\ response'[w].status \in {"400 Bad Request", "422 Unprocessable Entity"}
               /\ UNCHANGED <<store, bucket_order, lock, next_uuid, reading, clock>>]_vars

\* C6 witness: a POST without the interpretation field was answered 422 while the
\* store still holds the samples only.
C6_Witness ==
    \E w \in Workers :
        /\ pc[w] = "done"
        /\ request[w].route = "create_reading"
        /\ "interpretation" \notin DOMAIN request[w].body
        /\ response[w] = UnprocessableEntity
        /\ Cardinality(DOMAIN store) = NumSeeds

FieldsOfReading == {"id", "question", "cards", "interpretation", "created_at"}

\* C7: at most one worker holds the write guard and then none holds a read guard;
\* the guards are held exactly by the workers between their lock and their return;
\* every record a list or get returned is a complete record, and every stored record
\* is complete and stored under its own identifier.
C7_ReaderWriterExclusion ==
    /\ Cardinality(lock.writers) <= 1
    /\ lock.writers # {} => lock.readers = {}
    /\ lock.writers = {w \in Workers : pc[w] = "c94"}
    /\ lock.readers = {w \in Workers : pc[w] \in {"l65", "g74"}}
    /\ \A k \in DOMAIN store : DOMAIN store[k] = FieldsOfReading /\ store[k].id = k
    /\ \A w \in Workers : ListDone(w) =>
          \A i \in 1..Len(response[w].body) :
              /\ DOMAIN response[w].body[i] = FieldsOfReading
              /\ response[w].body[i] = store[response[w].body[i].id]
    /\ \A w \in Workers : (GetDone(w) /\ response[w].status = "200 OK") =>
          response[w].body = store[uuid[w]]

\* C7 witness: a create holds the write guard while a list or get waits for the lock.
C7_Witness ==
    \E w, v \in Workers :
        /\ pc[w] = "c94"
        /\ pc[v] \in {"l64", "g73"}

\* C8 as stated: under fair scheduling every handler that requests the lock gets it
\* and its request completes.
C8_EveryRequestCompletes ==
    \A w \in FairWorkers : (pc[w] \in {"l64", "g73", "c93"}) ~> (pc[w] = "idle")

\* C8 as amended: under fair scheduling every handler that holds the lock releases
\* it and its request completes, and while any request is being served some handler
\* can take a step (no deadlock).  A handler that waits for the lock may wait for
\* ever while other handlers keep taking it: RwLock promises no order.
C8_HoldersRelease ==
    /\ \A w \in FairWorkers : Holding(w) ~> (pc[w] = "idle" /\ ~Holding(w))
    /\ [](\A w \in FairWorkers : pc[w] = "idle" => ~Holding(w))
    /\ []((\E w \in FairWorkers : pc[w] # "idle") => \E v \in FairWorkers : ENABLED Handler(v))

\* C8 witness: a create waits for the lock while another worker holds a read guard.
C8_Witness ==
    \E w, v \in Workers :
        /\ pc[w] = "c93"
        /\ v \in lock.readers

Schemes == {"http", "https", "ws", "wss"}
Hosts == {"localhost", "127.0.0.1"}
Ports == {3000, 5173}

\* C9 as stated: in a development build the allow-list is two schemes x two hosts x
\* two ports, whatever ALLOWED_ORIGINS holds.
C9_TwoSchemes ==
    (cors.kind = "some" /\ cors_env.debug) =>
        \E S \in SUBSET Schemes :
            /\ Cardinality(S) = 2
            /\ cors.val.allowed_origins =
                  SomeExact({Origin(s, h, p) : s \in S, h \in Hosts, p \in Ports})

\* C9 as amended: in a development build the allow-list is exactly the four origins
\* of the one scheme http with the hosts localhost and 127.0.0.1 and the ports 3000
\* and 5173, whatever ALLOWED_ORIGINS holds.
C9_OneScheme ==
    (cors.kind = "some" /\ cors_env.debug) =>
        /\ cors.val.allowed_origins =
              SomeExact({Origin("http", h, p) : h \in Hosts, p \in Ports})
        /\ Cardinality(cors.val.allowed_origins.origins) = 4

\* C9 witness: configure_cors has run in a development build with ALLOWED_ORIGINS
\* set to a list of two origins.
C9_Witness ==
    /\ cors.kind = "some"
    /\ cors_env.debug
    /\ cors_env.allowed_origins.kind = "some"
    /\ Len(Split(cors_env.allowed_origins.val, ",")) = 2

\* C10: a listing that was complete before a get_readings began is a suffix of the
\* listing that get_readings returns.
C10_NewRecordsAtFront ==
    \A w \in Workers :
        (ListDone(w) /\ prior_listing[w] # <<>>) =>
            IsSuffix(prior_listing[w], response[w].body)

====
